---------------------------- MODULE Spec2Model ----------------------------
(***************************************************************************)
(* A model of Go-LevelDB (quangh33/Go-LevelDB): the engine of db.go, the   *)
(* write-ahead log of wal.go, the memtable of memtable.go, the table        *)
(* reader and writer of sstable.go, the compaction of memtable.go           *)
(* (MergeSSTables, DB.compact) and the merging iterator of                  *)
(* unnamed/part_006.                                                        *)
(*                                                                          *)
(* The directory (state.json, db.wal, wal-N.log, N.sst, N.sst.tmp, LOCK)    *)
(* survives a process kill; everything else is the state of one process.    *)
(* A write with Sync=true and one with Sync=false differ only in the fsync, *)
(* which a process kill does not observe: WAL.Write hands the record to the *)
(* operating system in both cases (w.bw.Flush, wal.go:92).                  *)
(***************************************************************************)
EXTENDS Integers, Sequences, FiniteSets, TLC

(***************************************************************************)
(* Bounds of the model.                                                     *)
(***************************************************************************)
\* Mutations (Put/Delete calls) issued over the whole history of the directory.
MaxOps == 3
\* Caller threads of the concurrent specification.
MaxThreads == 2
\* User keys are 1..MaxKey ("a" < "b" in byte order); 0 is the empty string.
MaxKey == 2
\* db.go:16 sets SSTableCountThreshold = 10; the model scales it down so that
\* a compaction is reached within MaxOps mutations.
SSTableCountThreshold == 2
\* db.go:17 sets MemtableSizeThreshold = 4 MiB; the model counts a key as one
\* byte, the value "s" as one byte and the value "L" as MemtableSizeThreshold
\* bytes, so that one Put of "L" alone exceeds the threshold.
MemtableSizeThreshold == 3

\* math.MaxUint64 (memtable.go:33, sstable.go:243): the largest sequence
\* number, written as the largest integer the checker represents.
MaxUint64 == 2147483647

OpTypePut == 0
OpTypeDelete == 1

Keys == 1..MaxKey
Values == {"s", "L"}
\* A nil []byte: the value of a tombstone and of "not found".
Nil == "nil"
ValLen(v) == IF v = Nil THEN 0 ELSE IF v = "s" THEN 1 ELSE MemtableSizeThreshold
\* Every user key of the model is one byte long, the empty string none.
KeyLen(k) == IF k = 0 THEN 0 ELSE 1

AllThreads == 1..MaxThreads
ConcKeys == {1}

(***************************************************************************)
(* Internal keys (internal_key.go).  An entry is an internal key with its   *)
(* value: [key, seq, type, val].                                            *)
(***************************************************************************)
Entry(k, s, t, v) == [key |-> k, seq |-> s, type |-> t, val |-> v]

\* internalKeyComparable.Compare: user key ascending, then sequence number
\* descending; the op type is not compared.
Compare(a, b) ==
    IF a.key > b.key THEN 1
    ELSE IF a.key < b.key THEN -1
    ELSE IF a.seq > b.seq THEN -1
    ELSE IF a.seq < b.seq THEN 1
    ELSE 0

\* The elements of a skip list from Front() along Next(): ascending in Compare.
RECURSIVE InOrder(_)
InOrder(S) ==
    IF S = {} THEN <<>>
    ELSE LET m == CHOOSE x \in S : \A y \in S : Compare(x, y) <= 0
         IN  <<m>> \o InOrder(S \ {m})

SeqToSet(s) == {s[i] : i \in 1..Len(s)}

(***************************************************************************)
(* Memtable (memtable.go:9-53): a skip list keyed by internal key and the   *)
(* approximate size.                                                        *)
(***************************************************************************)
NewMemtable == [data |-> {}, size |-> 0]

\* skiplist.Set: an element whose key compares equal keeps its key and takes
\* the new value; otherwise the element is inserted.
SkipListSet(data, e) ==
    IF \E x \in data : Compare(x, e) = 0
    THEN {IF Compare(x, e) = 0 THEN [x EXCEPT !.val = e.val] ELSE x : x \in data}
    ELSE data \cup {e}

\* Memtable.Put
MemtablePut(m, e) ==
    [data |-> SkipListSet(m.data, e), size |-> m.size + KeyLen(e.key) + ValLen(e.val)]

\* A search that returns the last element that is not smaller than the key.
SkipListFindLast(data, searchKey) ==
    LET ge == {x \in data : Compare(x, searchKey) >= 0}
    IN  IF ge = {} THEN {} ELSE {CHOOSE x \in ge : \A y \in ge : Compare(x, y) >= 0}

\* skiplist.Find: the first element that is not smaller than the search key.
SkipListFind(data, searchKey) ==
    LET ge == {x \in data : Compare(x, searchKey) >= 0}
    IN  IF ge = {} THEN {} ELSE {CHOOSE x \in ge : \A y \in ge : Compare(x, y) <= 0}

\* Memtable.Get: (value, found); a tombstone is (nil, true).
MemtableGet(m, k) ==
    LET found == SkipListFind(m.data, Entry(k, MaxUint64, OpTypePut, Nil))
    IN  IF found = {} THEN [val |-> Nil, found |-> FALSE]
        ELSE LET e == CHOOSE x \in found : TRUE
             IN  IF e.key # k THEN [val |-> Nil, found |-> FALSE]
                 ELSE IF e.type = OpTypeDelete THEN [val |-> Nil, found |-> TRUE]
                 ELSE [val |-> e.val, found |-> TRUE]

(***************************************************************************)
(* Sorted tables (sstable.go).  A table file holds the entries WriteSSTable *)
(* was given, in order.  The split into data blocks, the index and the      *)
(* Bloom filter decide only which block a lookup scans: the reader scans    *)
(* the entries of the table in order here; BlockGet below is the lookup on  *)
(* the blocks.                                                              *)
(***************************************************************************)
\* SSTableReader.Get: (value, found, err).  The first entry of the user key
\* in table order decides; a tombstone is returned with a non-nil error.
RECURSIVE ScanTable(_, _, _)
ScanTable(entries, i, k) ==
    IF i > Len(entries) THEN [val |-> Nil, found |-> FALSE, err |-> FALSE]
    ELSE IF entries[i].key = k
         THEN IF entries[i].type = OpTypeDelete
              THEN [val |-> Nil, found |-> TRUE, err |-> TRUE]
              ELSE [val |-> entries[i].val, found |-> TRUE, err |-> FALSE]
         ELSE ScanTable(entries, i + 1, k)

SSTableReaderGet(entries, k) == ScanTable(entries, 1, k)

(***************************************************************************)
(* container/heap as minHeap (memtable.go:114-129) and minHeapIterator      *)
(* (part_006:125-142) use it: a binary heap in a slice, ordered by Compare  *)
(* on the items' keys.  Indices are those of the Go slice (from 0).         *)
(***************************************************************************)
At(h, i) == h[i + 1]
Swap(h, i, j) == [h EXCEPT ![i + 1] = h[j + 1], ![j + 1] = h[i + 1]]
Less(h, i, j) == Compare(At(h, i).key, At(h, j).key) < 0

RECURSIVE HeapUp(_, _)
HeapUp(h, j) ==
    LET i == IF j = 0 THEN 0 ELSE (j - 1) \div 2
    IN  IF i = j \/ ~Less(h, j, i) THEN h ELSE HeapUp(Swap(h, i, j), i)

RECURSIVE HeapDown(_, _, _)
HeapDown(h, i, n) ==
    LET j1 == 2 * i + 1
    IN  IF j1 >= n THEN h
        ELSE LET j == IF j1 + 1 < n /\ Less(h, j1 + 1, j1) THEN j1 + 1 ELSE j1
             IN  IF ~Less(h, j, i) THEN h ELSE HeapDown(Swap(h, i, j), j, n)

HeapPush(h, x) == HeapUp(Append(h, x), Len(h))

\* heap.Pop: the popped item and the heap that remains.
HeapPop(h) ==
    LET n == Len(h) - 1
        d == HeapDown(Swap(h, 0, n), 0, n)
    IN  [item |-> d[n + 1], heap |-> SubSeq(d, 1, n)]

(***************************************************************************)
(* MergeSSTables (memtable.go:188-243).  inputs are the entries of the      *)
(* input files that exist, in the order of the paths.  A heap item is       *)
(* [key, src, pos]: the entry, its input and its position there.            *)
(***************************************************************************)
HeapItem(inputs, i, p) == [key |-> inputs[i][p], src |-> i, pos |-> p]

\* memtable.go:204-212: the first entry of every input that has one.
RECURSIVE MergeInit(_, _, _)
MergeInit(inputs, i, h) ==
    IF i > Len(inputs) THEN h
    ELSE MergeInit(inputs, i + 1,
                   IF Len(inputs[i]) >= 1 THEN HeapPush(h, HeapItem(inputs, i, 1)) ELSE h)

\* memtable.go:218-235: lastUserKey starts as the empty string (user key 0).
RECURSIVE MergeLoop(_, _, _, _)
MergeLoop(inputs, h, list, lastUserKey) ==
    IF Len(h) = 0 THEN list
    ELSE LET p    == HeapPop(h)
             item == p.item
             keep == item.key.key # lastUserKey
             l2   == IF keep /\ item.key.type = OpTypePut
                     THEN SkipListSet(list, item.key) ELSE list
             last == IF keep THEN item.key.key ELSE lastUserKey
             h2   == IF item.pos < Len(inputs[item.src])
                     THEN HeapPush(p.heap, HeapItem(inputs, item.src, item.pos + 1))
                     ELSE p.heap
         IN  MergeLoop(inputs, h2, l2, last)

\* gob leaves a field that has the zero value of its type out of the encoding
\* (sstable.go:84) and Decode leaves such a field of its target as it is.
\* prev is the target before the call, e the entry that was encoded.
GobDecodeInto(prev, e) ==
    [key  |-> IF e.key = 0 THEN prev.key ELSE e.key,
     seq  |-> IF e.seq = 0 THEN prev.seq ELSE e.seq,
     type |-> IF e.type = 0 THEN prev.type ELSE e.type,
     val  |-> e.val]

\* sstableIterator.Next (memtable.go:157-185) decodes every key into the same
\* it.key (memtable.go:174): what the iterator yields for the entries of a
\* file from position i on, with prev in it.key.
RECURSIVE IteratorEntries(_, _, _)
IteratorEntries(entries, i, prev) ==
    IF i > Len(entries) THEN <<>>
    ELSE LET d == GobDecodeInto(prev, entries[i])
         IN  <<d>> \o IteratorEntries(entries, i + 1, d)

\* The entries of the output file; empty when no file is written.
MergeSSTables(inputs) ==
    LET its == [i \in 1..Len(inputs) |->
                  IteratorEntries(inputs[i], 1, Entry(0, 0, OpTypePut, Nil))]
    IN  InOrder(MergeLoop(its, MergeInit(its, 1, <<>>), {}, 0))

(***************************************************************************)
(* The write-ahead log (wal.go).  A file is [recs, tail]: the complete      *)
(* records in the order they were appended and the state of the bytes after *)
(* them: "clean" (none), "short" (a record cut off by a kill between two    *)
(* write calls of one Write) or "badcrc" (a whole record whose checksum     *)
(* does not match).                                                         *)
(***************************************************************************)
NewWalFile == [recs |-> <<>>, tail |-> "clean"]

\* Replay, wal.go:126-168: records are added to a map keyed by internal key;
\* a short read (wal.go:136, 141, 151) and a checksum mismatch (wal.go:157)
\* return an error and no data.
RECURSIVE ReplayLoop(_, _, _, _)
ReplayLoop(file, i, data, maxSeqNum) ==
    IF i > Len(file.recs)
    THEN IF file.tail = "clean"
         THEN [data |-> data, maxSeq |-> maxSeqNum, err |-> FALSE]
         ELSE [data |-> {}, maxSeq |-> 0, err |-> TRUE]
    ELSE LET r == file.recs[i]
             d == {x \in data : ~(x.key = r.key /\ x.seq = r.seq /\ x.type = r.type)}
         IN  ReplayLoop(file, i + 1, d \cup {r},
                        IF r.seq > maxSeqNum THEN r.seq ELSE maxSeqNum)

Replay(file) == ReplayLoop(file, 1, {}, 0)

(***************************************************************************)
(* Small helpers on functions and sequences.                                *)
(***************************************************************************)
Remove(f, x) == [y \in DOMAIN f \ {x} |-> f[y]]
Store(f, x, v) == (x :> v) @@ f

\* sort.Ints on a slice of file numbers.
RECURSIVE SortInts(_)
SortInts(s) ==
    IF Len(s) = 0 THEN <<>>
    ELSE LET i == CHOOSE j \in 1..Len(s) : \A l \in 1..Len(s) : s[j] <= s[l]
         IN  <<s[i]>> \o SortInts(SubSeq(s, 1, i - 1) \o SubSeq(s, i + 1, Len(s)))

RECURSIVE SetToSortedSeq(_)
SetToSortedSeq(S) ==
    IF S = {} THEN <<>>
    ELSE LET m == CHOOSE x \in S : \A y \in S : x <= y
         IN  <<m>> \o SetToSortedSeq(S \ {m})

(***************************************************************************)
(* State.                                                                   *)
(***************************************************************************)
VARIABLES
    \* The directory.
    stateJson,      \* state.json: [kind, next, active]; kind is "absent", "torn" or "ok"
    walFiles,       \* WAL files by name: 0 is db.wal, N is wal-N.log
    sstFiles,       \* N.sst by N: [done, data]; done is FALSE while it is being written
    tmpFiles,       \* N.sst.tmp by N
    lockHeld,       \* the flock on LOCK is held
    \* The process: the DB struct (db.go:48-64) and its memtables.
    dbState,        \* "none", "opening" (NewDB is saving the state), "open", "closed"
    mems,           \* the Memtable objects of the process, by the order of creation
    mem,            \* db.mem: the active memtable; its WAL handle was opened with it
    immutableMem,   \* db.immutableMem, 0 for nil
    nextFileNumber,
    activeSSTables,
    sequenceNum,
    compactionInProgress,
    mu,             \* db.mu: "free", or the background task that holds the write lock
    \* The goroutines.
    flush,          \* the background flush of flushMemtable: [pc, sstNum, imm]
    comp,           \* DB.compact: [pc, tables, outputNum]
    gc,             \* the deletion of the compaction's inputs: the file numbers to delete
    pc,             \* per caller thread, the step of its call
    cur,            \* per caller thread, the call: its arguments and local variables
    result,         \* per caller thread, what its last call returned
    \* The history the properties speak of.
    nOps,           \* Put and Delete calls issued
    seqLog,         \* the sequence numbers written to a WAL, in the order of writing
    allowed,        \* per key, the values an acknowledged history allows Get to return
    last,           \* per key, the value of the last write acknowledged by this handle
    acked,          \* the mutations acknowledged by this handle
    dropped,        \* the entries a committed compaction of this handle has read
    preGet,         \* what Get returned for every key when the compaction started
    openResult,     \* what the last NewDB on the open directory returned
    handles,        \* the handles NewDB returned that were not closed
    corrupted,      \* the last record of db.wal was damaged from outside
    \* The merging iterator (part_006) over its child iterators.
    children,       \* the entries of every child iterator, in its order
    mi,             \* mergingIterator: [h, lastKey, currentValue, isValid]
    scanPc,         \* "new", "scan", "done"
    out,            \* the (user key, value) pairs the scan has yielded
    \* One function of the program applied to arguments of its own.
    fnPc,           \* the step of the application
    fnArg,          \* the arguments
    fnRet           \* what the function returned

diskVars  == <<stateJson, walFiles, sstFiles, tmpFiles, lockHeld>>
dbVars    == <<dbState, mems, mem, immutableMem, nextFileNumber, activeSSTables,
               sequenceNum, compactionInProgress, mu>>
taskVars  == <<flush, comp, gc>>
callVars  == <<pc, cur, result>>
histVars  == <<nOps, seqLog, allowed, last, acked, dropped, preGet,
               openResult, handles, corrupted>>
scanVars  == <<children, mi, scanPc, out>>
fnVars    == <<fnPc, fnArg, fnRet>>
vars == <<diskVars, dbVars, taskVars, callVars, histVars, scanVars, fnVars>>

NoCall == [kind |-> "none", key |-> 0, val |-> Nil, seq |-> 0,
           gen |-> 0, imm |-> 0, tables |-> <<>>, exp |-> "?", snap |-> "?"]
NoResult == [kind |-> "none", key |-> 0, val |-> Nil, found |-> FALSE,
             first |-> "?", newest |-> "?", snap |-> "?"]
IdleFlush == [pc |-> "idle", sstNum |-> 0, imm |-> 0]
IdleComp == [pc |-> "idle", tables |-> <<>>, outputNum |-> 0, fault |-> FALSE]
NoPreGet == [valid |-> FALSE, res |-> [k \in Keys |-> Nil]]
NewIter == [h |-> <<>>, lastKey |-> Entry(0, 0, OpTypePut, Nil),
            currentValue |-> Nil, isValid |-> FALSE]

\* The state of a process that holds no DB.
NoProcess ==
    /\ dbState = "none"
    /\ mems = <<>>
    /\ mem = 0
    /\ immutableMem = 0
    /\ nextFileNumber = 0
    /\ activeSSTables = <<>>
    /\ sequenceNum = 0
    /\ compactionInProgress = FALSE
    /\ mu = "free"
    /\ flush = IdleFlush
    /\ comp = IdleComp
    /\ gc = <<>>
    /\ pc = [t \in AllThreads |-> "idle"]
    /\ cur = [t \in AllThreads |-> NoCall]
    /\ result = [t \in AllThreads |-> NoResult]

\* The process ends: its memory is gone.
EndProcess ==
    /\ dbState' = "none"
    /\ mems' = <<>>
    /\ mem' = 0
    /\ immutableMem' = 0
    /\ nextFileNumber' = 0
    /\ activeSSTables' = <<>>
    /\ sequenceNum' = 0
    /\ compactionInProgress' = FALSE
    /\ mu' = "free"
    /\ flush' = IdleFlush
    /\ comp' = IdleComp
    /\ gc' = <<>>
    /\ pc' = [t \in AllThreads |-> "idle"]
    /\ cur' = [t \in AllThreads |-> NoCall]
    /\ result' = [t \in AllThreads |-> NoResult]

NoScan ==
    /\ children = <<>>
    /\ mi = NewIter
    /\ scanPc = "new"
    /\ out = <<>>

NoFn ==
    /\ fnPc = "none"
    /\ fnArg = <<>>
    /\ fnRet = <<>>

\* An empty directory and a process that has not called NewDB.
EmptyDir ==
    /\ stateJson = [kind |-> "absent", next |-> 0, active |-> <<>>]
    /\ walFiles = <<>>
    /\ sstFiles = <<>>
    /\ tmpFiles = <<>>
    /\ lockHeld = FALSE
    /\ NoProcess
    /\ nOps = 0
    /\ seqLog = <<>>
    /\ allowed = [k \in Keys |-> {Nil}]
    /\ last = [k \in Keys |-> "?"]
    /\ acked = {}
    /\ dropped = {}
    /\ preGet = NoPreGet
    /\ openResult = "none"
    /\ handles = 0
    /\ corrupted = FALSE

Init == EmptyDir /\ NoScan /\ NoFn

(***************************************************************************)
(* NewDB (db.go:68-155), Close (db.go:340-347) and the kill of the process. *)
(***************************************************************************)
\* A lock that is granted to every caller.
TryLockAlways == TRUE

\* dbLock.TryLock, db.go:76
TryLock == ~lockHeld

\* An error path that returns with the lock.
LockKeptAfterError == TRUE

\* db.go:92, 97, 125, 139: every error path of NewDB behind TryLock calls
\* dbLock.Unlock before it returns; the value is that of the lock after it.
LockAfterError == FALSE

\* db.go:114-117: the rotated WALs in the order of their names, then db.wal.
WalOrder ==
    SetToSortedSeq(DOMAIN walFiles \ {0}) \o (IF 0 \in DOMAIN walFiles THEN <<0>> ELSE <<>>)

RECURSIVE PutAll(_, _, _)
PutAll(m, entries, i) ==
    IF i > Len(entries) THEN m ELSE PutAll(MemtablePut(m, entries[i]), entries, i + 1)

\* db.go:119-134: every WAL is replayed into one memtable; an error of one
\* replay fails NewDB.
RECURSIVE Recover(_, _, _, _)
Recover(names, i, m, maxSeqNum) ==
    IF i > Len(names) THEN [mem |-> m, maxSeq |-> maxSeqNum, err |-> FALSE]
    ELSE LET r == Replay(walFiles[names[i]])
         IN  IF r.err THEN [mem |-> m, maxSeq |-> 0, err |-> TRUE]
             ELSE Recover(names, i + 1, PutAll(m, InOrder(r.data), 1),
                          IF r.maxSeq > maxSeqNum THEN r.maxSeq ELSE maxSeqNum)

\* db.go:86-101: the state loaded from state.json, or the default.
LoadedState ==
    IF stateJson.kind = "absent" THEN [next |-> 1, active |-> <<>>]
    ELSE [next |-> stateJson.next, active |-> stateJson.active]

\* No background goroutine is running.
BackgroundIdle ==
    /\ flush.pc \in {"idle", "failed"}
    /\ comp.pc \in {"idle", "done", "failed"}
    /\ gc = <<>>

\* A NewDB call up to the start of its saveState (db.go:152), or up to the
\* return of an error.  It is called in a new process, while a handle is
\* open, or after Close in the same process (wal.go:199-201).
NewDB ==
    /\ dbState \in {"none", "open", "closed"}
    /\ \A t \in AllThreads : pc[t] = "idle"
    /\ BackgroundIdle
    /\ IF ~TryLock
       THEN /\ openResult' = "locked"
            /\ UNCHANGED <<diskVars, dbVars, taskVars, callVars, nOps, seqLog, allowed,
                           last, acked, dropped, preGet, handles, corrupted, scanVars, fnVars>>
       ELSE IF stateJson.kind = "torn"
       THEN /\ openResult' = "state"
            /\ lockHeld' = LockAfterError
            /\ UNCHANGED <<stateJson, walFiles, sstFiles, tmpFiles, dbVars, taskVars,
                           callVars, nOps, seqLog, allowed, last, acked, dropped, preGet,
                           handles, corrupted, scanVars, fnVars>>
       ELSE LET rec == Recover(WalOrder, 1, NewMemtable, 0)
                st  == LoadedState
            IN  IF rec.err
                THEN /\ openResult' = "replay"
                     /\ lockHeld' = LockAfterError
                     /\ UNCHANGED <<stateJson, walFiles, sstFiles, tmpFiles, dbVars,
                                    taskVars, callVars, nOps, seqLog, allowed, last, acked,
                                    dropped, preGet, handles, corrupted, scanVars, fnVars>>
                ELSE /\ lockHeld' = TRUE
                     /\ walFiles' = IF 0 \in DOMAIN walFiles THEN walFiles
                                    ELSE Store(walFiles, 0, NewWalFile)
                     /\ dbState' = "opening"
                     /\ mems' = <<rec.mem>>
                     /\ mem' = 1
                     /\ immutableMem' = 0
                     /\ nextFileNumber' = st.next
                     /\ activeSSTables' = st.active
                     /\ sequenceNum' = rec.maxSeq
                     /\ compactionInProgress' = FALSE
                     /\ mu' = "free"
                     /\ stateJson' = [stateJson EXCEPT !.kind = "torn"]
                     /\ last' = [k \in Keys |-> "?"]
                     /\ acked' = {}
                     /\ dropped' = {}
                     /\ preGet' = NoPreGet
                     /\ UNCHANGED <<sstFiles, tmpFiles, taskVars, callVars, nOps, seqLog,
                                    allowed, openResult, handles, corrupted, scanVars, fnVars>>

\* The end of saveState (db.go:45) in NewDB and its return of the handle.
NewDBReturn ==
    /\ dbState = "opening"
    /\ dbState' = "open"
    /\ stateJson' = [kind |-> "ok", next |-> nextFileNumber, active |-> activeSSTables]
    /\ openResult' = "ok"
    /\ handles' = handles + 1
    /\ UNCHANGED <<walFiles, sstFiles, tmpFiles, lockHeld, mems, mem, immutableMem,
                   nextFileNumber, activeSSTables, sequenceNum, compactionInProgress, mu,
                   taskVars, callVars, nOps, seqLog, allowed, last, acked, dropped,
                   preGet, corrupted, scanVars, fnVars>>

\* DB.Close: the lock is released and the WAL closed; no goroutine is awaited.
Close ==
    /\ dbState = "open"
    /\ \A t \in AllThreads : pc[t] = "idle"
    /\ dbState' = "closed"
    /\ lockHeld' = FALSE
    /\ handles' = handles - 1
    /\ result' = [t \in AllThreads |-> NoResult]
    /\ openResult' = "none"
    /\ UNCHANGED <<stateJson, walFiles, sstFiles, tmpFiles, mems, mem, immutableMem,
                   nextFileNumber, activeSSTables, sequenceNum, compactionInProgress, mu,
                   taskVars, pc, cur, nOps, seqLog, allowed, last, acked, dropped,
                   preGet, corrupted, scanVars, fnVars>>

InWrite(t) == pc[t] \in {"handles", "wal", "mem", "check"}

\* A write that is in WAL.Write with a record longer than the buffer of the
\* bufio.Writer (wal.go:81-92: several write calls for one record).
TearableWrite(t) == pc[t] = "wal" /\ cur[t].val = "L" /\ cur[t].gen = mem /\ dbState = "open"

\* The process ends (a kill, or its exit after Close): the directory stays,
\* the operating system releases the lock.  torn: the kill fell between two
\* write calls of one WAL record.
Kill(torn) ==
    /\ dbState # "none"
    /\ torn => \E t \in AllThreads : TearableWrite(t)
    /\ walFiles' = IF torn THEN [walFiles EXCEPT ![0].tail = "short"] ELSE walFiles
    /\ lockHeld' = FALSE
    /\ EndProcess
    /\ handles' = 0
    /\ openResult' = "none"
    /\ allowed' = [k \in Keys |->
                     allowed[k] \cup {IF cur[t].kind = "del" THEN Nil ELSE cur[t].val :
                                        t \in {u \in AllThreads : InWrite(u) /\ cur[u].key = k}}]
    /\ last' = [k \in Keys |-> "?"]
    /\ acked' = {}
    /\ dropped' = {}
    /\ preGet' = NoPreGet
    /\ UNCHANGED <<stateJson, sstFiles, tmpFiles, nOps, seqLog, corrupted, scanVars, fnVars>>

\* The last bytes of db.wal are overwritten while no process has it open: the
\* checksum of its last record no longer matches.
CorruptWalTail ==
    /\ dbState = "none"
    /\ ~corrupted
    /\ 0 \in DOMAIN walFiles
    /\ walFiles[0].tail = "clean"
    /\ Len(walFiles[0].recs) > 0
    /\ walFiles' = [walFiles EXCEPT ![0] =
                      [recs |-> SubSeq(@.recs, 1, Len(@.recs) - 1), tail |-> "badcrc"]]
    /\ corrupted' = TRUE
    /\ openResult' = "none"
    /\ UNCHANGED <<stateJson, sstFiles, tmpFiles, lockHeld, dbVars, taskVars, callVars,
                   nOps, seqLog, allowed, last, acked, dropped, preGet, handles, scanVars, fnVars>>

(***************************************************************************)
(* Put and Delete (db.go:226-255, 315-338), one action per step that        *)
(* another goroutine can come between.                                      *)
(***************************************************************************)
\* db.go:227 / 316: the sequence number is allocated before anything else.
WriteBegin(t, kind, k, v) ==
    /\ dbState = "open"
    /\ pc[t] = "idle"
    /\ nOps < MaxOps
    /\ sequenceNum' = sequenceNum + 1
    /\ pc' = [pc EXCEPT ![t] = "handles"]
    /\ cur' = [u \in AllThreads |->
                 IF u = t
                 THEN [NoCall EXCEPT !.kind = kind, !.key = k, !.val = v,
                                     !.seq = sequenceNum + 1]
                 ELSE IF pc[u] = "look" /\ cur[u].key = k
                      THEN [cur[u] EXCEPT !.exp = "?", !.snap = "?"]
                      ELSE cur[u]]
    /\ result' = [result EXCEPT ![t] = NoResult]
    /\ nOps' = nOps + 1
    /\ preGet' = [preGet EXCEPT !.valid = FALSE]
    /\ UNCHANGED <<diskVars, dbState, mems, mem, immutableMem, nextFileNumber,
                   activeSSTables, compactionInProgress, mu, taskVars, seqLog, allowed, last,
                   acked, dropped, openResult, handles, corrupted, scanVars, fnVars>>

Put(t, k, v) == WriteBegin(t, "put", k, v)
Delete(t, k) == WriteBegin(t, "del", k, Nil)

\* db.go:240-243 / 324-327: the WAL and the memtable are read under the read
\* lock.  The WAL handle and the memtable are replaced together, so one
\* number names both.
WriteHandles(t) ==
    /\ pc[t] = "handles"
    /\ mu = "free"
    /\ cur' = [cur EXCEPT ![t].gen = mem]
    /\ pc' = [pc EXCEPT ![t] = "wal"]
    /\ UNCHANGED <<diskVars, dbVars, taskVars, result, histVars, scanVars, fnVars>>

\* The internal key and value of the call of thread t.
CallEntry(t) ==
    Entry(cur[t].key, cur[t].seq,
          IF cur[t].kind = "del" THEN OpTypeDelete ELSE OpTypePut, cur[t].val)

\* WAL.Write (wal.go:58-101) on the handle the call holds.  The handle of a
\* WAL that a flush rotation (db.go:171) or Close has closed returns an error,
\* and the call returns it (db.go:245-247).
WalWrite(t) ==
    /\ pc[t] = "wal"
    /\ IF cur[t].gen = mem /\ dbState = "open"
       THEN /\ walFiles' = [walFiles EXCEPT ![0].recs = Append(@, CallEntry(t))]
            /\ seqLog' = Append(seqLog, cur[t].seq)
            /\ pc' = [pc EXCEPT ![t] = "mem"]
            /\ UNCHANGED <<cur, result>>
       ELSE /\ pc' = [pc EXCEPT ![t] = "idle"]
            /\ cur' = [cur EXCEPT ![t] = NoCall]
            /\ result' = [result EXCEPT ![t] = [NoResult EXCEPT !.kind = "err"]]
            /\ UNCHANGED <<walFiles, seqLog>>
    /\ UNCHANGED <<stateJson, sstFiles, tmpFiles, lockHeld, dbVars, taskVars, nOps,
                   allowed, last, acked, dropped, preGet, openResult, handles, corrupted,
                   scanVars, fnVars>>

\* db.go:249 / 333: memtable.Put on the memtable the call holds.
MemPut(t) ==
    /\ pc[t] = "mem"
    /\ mems' = [mems EXCEPT ![cur[t].gen] = MemtablePut(@, CallEntry(t))]
    /\ pc' = [pc EXCEPT ![t] = "check"]
    /\ UNCHANGED <<diskVars, dbState, mem, immutableMem, nextFileNumber, activeSSTables,
                   sequenceNum, compactionInProgress, mu, taskVars, cur, result, histVars,
                   scanVars, fnVars>>

\* db.go:251 / 334
NeedsFlush(t) == mems[cur[t].gen].size > MemtableSizeThreshold

\* A flush that rotates whatever the state of the immutable memtable.
CanRotateAlways == TRUE

\* db.go:161-164: flushMemtable returns at once while an immutable memtable
\* is installed.
CanRotate == immutableMem = 0

\* flushMemtable up to the start of its goroutine (db.go:157-189): a no-op
\* while an immutable memtable exists; else the rotation of the WAL and of
\* the memtable.  rotate says which.
FlushMemtable(rotate) ==
    IF rotate
    THEN /\ nextFileNumber' = nextFileNumber + 1
         /\ walFiles' = Store(Store(Remove(walFiles, 0), nextFileNumber, walFiles[0]),
                              0, NewWalFile)
         /\ immutableMem' = mem
         /\ mems' = Append(mems, NewMemtable)
         /\ mem' = Len(mems) + 1
         /\ flush' = [pc |-> "create", sstNum |-> nextFileNumber, imm |-> mem]
    ELSE UNCHANGED <<nextFileNumber, walFiles, immutableMem, mems, mem, flush>>

\* db.go:251-254 / 334-337: the size check, the flush it triggers, and the
\* return of nil: the write is acknowledged.
WriteEnd(t) ==
    /\ pc[t] = "check"
    /\ NeedsFlush(t) => mu = "free"
    /\ FlushMemtable(NeedsFlush(t) /\ CanRotate)
    /\ pc' = [pc EXCEPT ![t] = "idle"]
    /\ cur' = [cur EXCEPT ![t] = NoCall]
    /\ allowed' = [allowed EXCEPT ![cur[t].key] = {cur[t].val}]
    /\ last' = [last EXCEPT ![cur[t].key] = cur[t].val]
    /\ acked' = acked \cup {CallEntry(t)}
    /\ UNCHANGED <<stateJson, sstFiles, tmpFiles, lockHeld, dbState, activeSSTables,
                   sequenceNum, compactionInProgress, mu, comp, gc, result, nOps, seqLog,
                   dropped, preGet, openResult, handles, corrupted, scanVars, fnVars>>

(***************************************************************************)
(* Get (db.go:258-312).                                                     *)
(***************************************************************************)
\* db.go:268-272: a nil value of a found key is a tombstone.
Found(val) == IF val = Nil THEN [val |-> Nil, found |-> FALSE]
              ELSE [val |-> val, found |-> TRUE]

\* db.go:288-309: the tables from the last of the list to the first.  A table
\* that cannot be opened and a table whose Get returns an error are skipped.
RECURSIVE GetFromTables(_, _, _)
GetFromTables(tables, i, k) ==
    IF i < 1 THEN [val |-> Nil, found |-> FALSE]
    ELSE IF tables[i] \notin DOMAIN sstFiles \/ ~sstFiles[tables[i]].done
         THEN GetFromTables(tables, i - 1, k)
         ELSE LET r == SSTableReaderGet(sstFiles[tables[i]].data, k)
              IN  IF r.err THEN GetFromTables(tables, i - 1, k)
                  ELSE IF r.found THEN Found(r.val)
                  ELSE GetFromTables(tables, i - 1, k)

\* db.go:265-311 on the handles of a snapshot.
DBGet(memObj, immGen, tables, k) ==
    LET a == MemtableGet(memObj, k)
    IN  IF a.found THEN Found(a.val)
        ELSE LET b == IF immGen = 0 THEN [val |-> Nil, found |-> FALSE]
                      ELSE MemtableGet(mems[immGen], k)
             IN  IF b.found THEN Found(b.val)
                 ELSE GetFromTables(tables, Len(tables), k)

\* A whole Get with no step of another goroutine in between.
GetNow(k) == DBGet(mems[mem], immutableMem, activeSSTables, k)

\* The value of the newest of a set of versions of one key.
Newest(versions) ==
    LET e == CHOOSE x \in versions : \A y \in versions : x.seq >= y.seq
    IN  IF e.type = OpTypeDelete THEN Nil ELSE e.val

\* The versions of key k that the tiers of a snapshot hold, first tier first:
\* the active memtable, the immutable memtable, the tables by descending
\* file number.
Tiers(memGen, immGen, tables, k) ==
    LET OfKey(S) == {e \in S : e.key = k}
        TableData(n) == IF n \in DOMAIN sstFiles /\ sstFiles[n].done
                        THEN SeqToSet(sstFiles[n].data) ELSE {}
    IN  <<OfKey(mems[memGen].data)>>
        \o (IF immGen = 0 THEN <<>> ELSE <<OfKey(mems[immGen].data)>>)
        \o [i \in 1..Len(tables) |-> OfKey(TableData(tables[Len(tables) + 1 - i]))]

\* What the first tier that holds a version of the key says.
FirstTier(tiers) ==
    IF \A i \in 1..Len(tiers) : tiers[i] = {} THEN Nil
    ELSE Newest(tiers[CHOOSE i \in 1..Len(tiers) :
                        tiers[i] # {} /\ \A j \in 1..(i - 1) : tiers[j] = {}])

\* The value of the newest acknowledged write of key k by this handle, "?"
\* when it acknowledged none or a write is in flight.
NewestAcked(k) ==
    IF (\E u \in AllThreads : InWrite(u)) \/ {e \in acked : e.key = k} = {} THEN "?"
    ELSE Newest({e \in acked : e.key = k})

\* What the tiers of the snapshot hold for key k at the instant of the
\* snapshot, "?" while a write is in flight.
SnapshotValue(k) == IF \E u \in AllThreads : InWrite(u) THEN "?" ELSE GetNow(k).val

\* db.go:259-263: the snapshot under the read lock.
Get(t, k) ==
    /\ dbState = "open"
    /\ pc[t] = "idle"
    /\ mu = "free"
    /\ pc' = [pc EXCEPT ![t] = "look"]
    /\ cur' = [cur EXCEPT ![t] = [NoCall EXCEPT !.kind = "get", !.key = k, !.gen = mem,
                                                !.imm = immutableMem,
                                                !.tables = activeSSTables,
                                                !.exp = NewestAcked(k),
                                                !.snap = SnapshotValue(k)]]
    /\ result' = [result EXCEPT ![t] = NoResult]
    /\ UNCHANGED <<diskVars, dbVars, taskVars, histVars, scanVars, fnVars>>

\* db.go:265-311: the lookup in the objects of the snapshot.
GetReturn(t) ==
    /\ pc[t] = "look"
    /\ LET r == DBGet(mems[cur[t].gen], cur[t].imm, cur[t].tables, cur[t].key)
       IN  result' = [result EXCEPT ![t] =
                        [kind |-> "get", key |-> cur[t].key, val |-> r.val,
                         found |-> r.found,
                         first |-> FirstTier(Tiers(cur[t].gen, cur[t].imm, cur[t].tables,
                                                   cur[t].key)),
                         newest |-> cur[t].exp, snap |-> cur[t].snap]]
    /\ pc' = [pc EXCEPT ![t] = "idle"]
    /\ cur' = [cur EXCEPT ![t] = NoCall]
    /\ UNCHANGED <<diskVars, dbVars, taskVars, histVars, scanVars, fnVars>>

(***************************************************************************)
(* The background flush (the goroutine of flushMemtable, db.go:189-222).    *)
(***************************************************************************)
\* os.Create of N.sst in WriteSSTable (sstable.go:50): the file is written
\* under its final name.
FlushCreate ==
    /\ flush.pc = "create"
    /\ sstFiles' = Store(sstFiles, flush.sstNum, [done |-> FALSE, data |-> <<>>])
    /\ flush' = [flush EXCEPT !.pc = "write"]
    /\ UNCHANGED <<stateJson, walFiles, tmpFiles, lockHeld, dbVars, comp, gc, callVars,
                   histVars, scanVars, fnVars>>

\* An immutable memtable that is cleared as soon as the file is written.
ImmClearedEarly == IF flush.pc = "write" THEN 0 ELSE immutableMem

\* db.immutableMem between the return of WriteSSTable and the lock
\* (db.go:194-201): the goroutine leaves it installed.
ImmAfterWrite == immutableMem

\* WriteSSTable (sstable.go:63-154) walks the skip list of the immutable
\* memtable without its lock: an insert of a late writer is in the file when
\* it came before the walk and is not when it came after.
FlushWrite ==
    /\ flush.pc = "write"
    /\ sstFiles' = [sstFiles EXCEPT ![flush.sstNum] =
                      [done |-> TRUE, data |-> InOrder(mems[flush.imm].data)]]
    /\ flush' = [flush EXCEPT !.pc = "commit"]
    /\ immutableMem' = ImmAfterWrite
    /\ UNCHANGED <<stateJson, walFiles, tmpFiles, lockHeld, dbState, mems, mem,
                   nextFileNumber, activeSSTables, sequenceNum, compactionInProgress, mu,
                   comp, gc, callVars, histVars, scanVars, fnVars>>

\* db.go:201-206: under the lock the immutable memtable is cleared and the
\* table appended to the sorted active set; saveState starts: os.WriteFile
\* truncates state.json.
FlushCommit ==
    /\ flush.pc = "commit"
    /\ mu = "free"
    /\ mu' = "flush"
    /\ immutableMem' = 0
    /\ activeSSTables' = SortInts(Append(activeSSTables, flush.sstNum))
    /\ stateJson' = [stateJson EXCEPT !.kind = "torn"]
    /\ flush' = [flush EXCEPT !.pc = "save"]
    /\ UNCHANGED <<walFiles, sstFiles, tmpFiles, lockHeld, dbState, mems, mem,
                   nextFileNumber, sequenceNum, compactionInProgress, comp, gc, callVars,
                   histVars, scanVars, fnVars>>

\* A goroutine that goes on after every saveState, whatever it returned.
AfterSaveAlways(ok) == "end"

\* What the flush goroutine does after saveState (db.go:206-209): on an error
\* it returns, else it goes on to the removal of the WAL.
AfterSave(ok) == IF ok THEN "end" ELSE "idle"

\* The end of saveState (db.go:45).
FlushSave ==
    /\ flush.pc = "save"
    /\ stateJson' = [kind |-> "ok", next |-> nextFileNumber, active |-> activeSSTables]
    /\ flush' = [flush EXCEPT !.pc = AfterSave(TRUE)]
    /\ UNCHANGED <<walFiles, sstFiles, tmpFiles, lockHeld, dbVars, comp, gc, callVars,
                   histVars, scanVars, fnVars>>

\* A trigger that does not look at compactionInProgress.
CompactionDueIgnoringFlag == Len(activeSSTables) >= SSTableCountThreshold

\* db.go:218: the test that starts a compaction.
CompactionDue == Len(activeSSTables) >= SSTableCountThreshold /\ ~compactionInProgress

\* db.go:212-221: the rotated WAL is removed, a compaction is started when the
\* threshold is reached and none was started before, the lock is released.
FlushEnd ==
    /\ flush.pc = "end"
    /\ walFiles' = Remove(walFiles, flush.sstNum)
    /\ IF CompactionDue
       THEN /\ compactionInProgress' = TRUE
            /\ comp' = [IdleComp EXCEPT !.pc = "start"]
       ELSE UNCHANGED <<compactionInProgress, comp>>
    /\ mu' = "free"
    /\ flush' = IdleFlush
    /\ UNCHANGED <<stateJson, sstFiles, tmpFiles, lockHeld, dbState, mems, mem,
                   immutableMem, nextFileNumber, activeSSTables, sequenceNum, gc, callVars,
                   histVars, scanVars, fnVars>>

\* WriteSSTable returns an error (db.go:194-197), at os.Create or at a later
\* write that leaves a part of the file: the goroutine returns.
FlushFail ==
    /\ flush.pc \in {"create", "write"}
    /\ flush' = [flush EXCEPT !.pc = "failed"]
    /\ UNCHANGED <<diskVars, dbVars, comp, gc, callVars, histVars, scanVars, fnVars>>

\* saveState returns an error (db.go:206-209): state.json keeps its old
\* content or is left truncated; the goroutine returns and its deferred
\* unlock runs.
FlushSaveFail ==
    /\ flush.pc = "save"
    /\ \E kind \in {"ok", "torn"} : stateJson' = [stateJson EXCEPT !.kind = kind]
    /\ flush' = IF AfterSave(FALSE) = "idle" THEN IdleFlush
                ELSE [flush EXCEPT !.pc = AfterSave(FALSE)]
    /\ mu' = IF AfterSave(FALSE) = "idle" THEN "free" ELSE mu
    /\ UNCHANGED <<walFiles, sstFiles, tmpFiles, lockHeld, dbState, mems, mem,
                   immutableMem, nextFileNumber, activeSSTables, sequenceNum,
                   compactionInProgress, comp, gc, callVars, histVars, scanVars, fnVars>>

(***************************************************************************)
(* DB.compact (memtable.go:245-308).                                        *)
(***************************************************************************)
\* memtable.go:247-254: the snapshot of the active set and the output number.
CompactStart ==
    /\ comp.pc = "start"
    /\ mu = "free"
    /\ comp' = [pc |-> "merge", tables |-> activeSSTables, outputNum |-> nextFileNumber,
                fault |-> FALSE]
    /\ nextFileNumber' = nextFileNumber + 1
    /\ preGet' = [valid |-> \A t \in AllThreads : ~InWrite(t),
                  res |-> [k \in Keys |-> GetNow(k).val]]
    /\ UNCHANGED <<diskVars, dbState, mems, mem, immutableMem, activeSSTables, sequenceNum,
                   compactionInProgress, mu, flush, gc, callVars, nOps, seqLog, allowed,
                   last, acked, dropped, openResult, handles, corrupted, scanVars, fnVars>>

\* The entries of the input files that exist (memtable.go:190-199), in the
\* order of the paths.
RECURSIVE MergeInputs(_, _)
MergeInputs(tables, i) ==
    IF i > Len(tables) THEN <<>>
    ELSE (IF tables[i] \in DOMAIN sstFiles THEN <<sstFiles[tables[i]].data>> ELSE <<>>)
         \o MergeInputs(tables, i + 1)

\* memtable.go:263: MergeSSTables writes M.sst.tmp, or no file when no entry
\* is left.
CompactMerge ==
    /\ comp.pc = "merge"
    /\ LET merged == MergeSSTables(MergeInputs(comp.tables, 1))
       IN  tmpFiles' = IF Len(merged) = 0 THEN tmpFiles
                       ELSE Store(tmpFiles, comp.outputNum, [done |-> TRUE, data |-> merged])
    /\ comp' = [comp EXCEPT !.pc = "rename"]
    /\ UNCHANGED <<stateJson, walFiles, sstFiles, lockHeld, dbVars, flush, gc, callVars,
                   histVars, scanVars, fnVars>>

\* A read or decode error on input i after p entries: sstableIterator.Next
\* records it and returns false (memtable.go:157-185), MergeSSTables never
\* looks at it and takes the input as ended.
CompactReadError ==
    /\ comp.pc = "merge"
    /\ LET inputs == MergeInputs(comp.tables, 1)
       IN  \E i \in 1..Len(inputs) : \E p \in 0..(Len(inputs[i]) - 1) :
              LET merged == MergeSSTables([inputs EXCEPT ![i] = SubSeq(@, 1, p)])
              IN  tmpFiles' = IF Len(merged) = 0 THEN tmpFiles
                              ELSE Store(tmpFiles, comp.outputNum,
                                         [done |-> TRUE, data |-> merged])
    /\ comp' = [comp EXCEPT !.pc = "rename", !.fault = TRUE]
    /\ UNCHANGED <<stateJson, walFiles, sstFiles, lockHeld, dbVars, flush, gc, callVars,
                   histVars, scanVars, fnVars>>

\* MergeSSTables returns an error (an input cannot be opened, memtable.go:
\* 192-197, or the output cannot be written, memtable.go:242): compact
\* returns (memtable.go:263-266).
CompactMergeError ==
    /\ comp.pc = "merge"
    /\ comp' = [IdleComp EXCEPT !.pc = "failed", !.fault = TRUE]
    /\ UNCHANGED <<diskVars, dbVars, flush, gc, callVars, histVars, scanVars, fnVars>>

\* memtable.go:268-271: the rename of M.sst.tmp; without the file the rename
\* fails and compact returns.
CompactRename ==
    /\ comp.pc = "rename"
    /\ IF comp.outputNum \in DOMAIN tmpFiles
       THEN /\ sstFiles' = Store(sstFiles, comp.outputNum, tmpFiles[comp.outputNum])
            /\ tmpFiles' = Remove(tmpFiles, comp.outputNum)
            /\ comp' = [comp EXCEPT !.pc = "commit"]
       ELSE /\ comp' = [IdleComp EXCEPT !.pc = "failed", !.fault = comp.fault]
            /\ UNCHANGED <<sstFiles, tmpFiles>>
    /\ UNCHANGED <<stateJson, walFiles, lockHeld, dbVars, flush, gc, callVars, histVars,
                   scanVars, fnVars>>

\* A swap that forgets the tables added since the snapshot.
SwappedOutputOnly == <<comp.outputNum>>

\* A swap that leaves the inputs in the active set.
SwappedKeepInputs == SortInts(Append(activeSSTables, comp.outputNum))

\* memtable.go:275-289: the output and the tables added since the snapshot.
SwappedTables ==
    SortInts(<<comp.outputNum>>
             \o SelectSeq(activeSSTables, LAMBDA n : n \notin SeqToSet(comp.tables)))

\* memtable.go:273-291: the swap under the lock and the start of saveState.
CompactCommit ==
    /\ comp.pc = "commit"
    /\ mu = "free"
    /\ mu' = "compact"
    /\ activeSSTables' = SwappedTables
    /\ stateJson' = [stateJson EXCEPT !.kind = "torn"]
    /\ comp' = [comp EXCEPT !.pc = "save"]
    /\ dropped' = dropped \cup UNION {SeqToSet(sstFiles[n].data) :
                                        n \in SeqToSet(comp.tables) \cap DOMAIN sstFiles}
    /\ UNCHANGED <<walFiles, sstFiles, tmpFiles, lockHeld, dbState, mems, mem, immutableMem,
                   nextFileNumber, sequenceNum, compactionInProgress, flush, gc, callVars,
                   nOps, seqLog, allowed, last, acked, preGet, openResult, handles,
                   corrupted, scanVars, fnVars>>

\* The end of saveState, the start of the goroutine that deletes the inputs
\* (memtable.go:297) and the release of the lock.  compactionInProgress is
\* not reset.
CompactSave ==
    /\ comp.pc = "save"
    /\ stateJson' = [kind |-> "ok", next |-> nextFileNumber, active |-> activeSSTables]
    /\ mu' = "free"
    /\ gc' = comp.tables
    /\ comp' = [IdleComp EXCEPT !.pc = "done", !.fault = comp.fault]
    /\ UNCHANGED <<walFiles, sstFiles, tmpFiles, lockHeld, dbState, mems, mem, immutableMem,
                   nextFileNumber, activeSSTables, sequenceNum, compactionInProgress, flush,
                   callVars, histVars, scanVars, fnVars>>

\* saveState returns an error (memtable.go:291-294): state.json keeps its old
\* content or is left truncated; compact returns, its deferred unlock runs
\* and the inputs are not removed.
CompactSaveFail ==
    /\ comp.pc = "save"
    /\ \E kind \in {"ok", "torn"} : stateJson' = [stateJson EXCEPT !.kind = kind]
    /\ mu' = "free"
    /\ comp' = [IdleComp EXCEPT !.pc = "failed", !.fault = TRUE]
    /\ UNCHANGED <<walFiles, sstFiles, tmpFiles, lockHeld, dbState, mems, mem, immutableMem,
                   nextFileNumber, activeSSTables, sequenceNum, compactionInProgress, flush,
                   gc, callVars, histVars, scanVars, fnVars>>

\* memtable.go:297-307: the input files are removed.
DeleteInputs ==
    /\ gc # <<>>
    /\ sstFiles' = [n \in DOMAIN sstFiles \ SeqToSet(gc) |-> sstFiles[n]]
    /\ gc' = <<>>
    /\ UNCHANGED <<stateJson, walFiles, tmpFiles, lockHeld, dbVars, flush, comp, callVars,
                   histVars, scanVars, fnVars>>

(***************************************************************************)
(* Specifications.                                                          *)
(***************************************************************************)
\* The steps at which the file system returns an error.
Faults ==
    \/ FlushFail \/ FlushSaveFail
    \/ CompactReadError \/ CompactMergeError \/ CompactSaveFail

Background ==
    \/ FlushCreate \/ FlushWrite \/ FlushCommit \/ FlushSave \/ FlushEnd
    \/ CompactStart \/ CompactMerge \/ CompactRename \/ CompactCommit \/ CompactSave
    \/ DeleteInputs

\* The steps of the calls of the threads T on the keys K.
Calls(T, K) ==
    \E t \in T :
        \/ \E k \in K, v \in Values : Put(t, k, v)
        \/ \E k \in K : Delete(t, k)
        \/ WriteHandles(t) \/ WalWrite(t) \/ MemPut(t) \/ WriteEnd(t)
        \/ \E k \in K : Get(t, k)
        \/ GetReturn(t)

\* One caller thread; the process can be killed at every step and the
\* directory reopened; file operations of the background tasks can fail.
Next ==
    \/ NewDB \/ NewDBReturn \/ Close
    \/ \E torn \in BOOLEAN : Kill(torn)
    \/ CorruptWalTail
    \/ Calls({1}, Keys)
    \/ Background
    \/ Faults

Spec == Init /\ [][Next]_vars

\* Several caller threads on one handle that is opened once and never
\* closed; they write and read the same key.
NextConc ==
    \/ NewDB \/ NewDBReturn
    \/ Calls(AllThreads, ConcKeys)
    \/ Background

SpecConc == Init /\ [][NextConc]_vars

(***************************************************************************)
(* The merging iterator (part_006) over child iterators.  A child yields    *)
(* its entries in their order; a heap item is [key, src, pos] as in the     *)
(* merge: the entry (with its value), the child and its position there.     *)
(***************************************************************************)
MaxChildren == 3
MaxChildLen == 2
MaxSeq == 2
MaxScanKey == 1
ScanKeys == 0..MaxScanKey

ScanEntries ==
    {Entry(k, q, OpTypePut, v) : k \in ScanKeys, q \in 1..MaxSeq, v \in Values}
    \cup {Entry(k, q, OpTypeDelete, Nil) : k \in ScanKeys, q \in 1..MaxSeq}

\* What a memtable or a table can hold: entries in strictly ascending order.
SortedLists(n) ==
    {c \in [1..n -> ScanEntries] : \A i \in 1..(n - 1) : Compare(c[i], c[i + 1]) < 0}
ChildSet == UNION {SortedLists(n) : n \in 0..MaxChildLen}

\* A shadow test that never fires.
ShadowedNever(m, currentKey) == FALSE

\* part_006:48: an older version of the user key that was handled last.
Shadowed(m, currentKey) == m.isValid /\ m.lastKey.key = currentKey.key

\* part_006:35-65
RECURSIVE findNextValid(_, _)
findNextValid(iters, m) ==
    IF Len(m.h) = 0 THEN [m EXCEPT !.isValid = FALSE, !.currentValue = Nil]
    ELSE LET p    == HeapPop(m.h)
             item == p.item
             h2   == IF item.pos < Len(iters[item.src])
                     THEN HeapPush(p.heap, HeapItem(iters, item.src, item.pos + 1))
                     ELSE p.heap
         IN  IF Shadowed(m, item.key)
             THEN findNextValid(iters, [m EXCEPT !.h = h2])
             ELSE LET m2 == [h |-> h2, lastKey |-> item.key,
                             currentValue |-> item.key.val, isValid |-> TRUE]
                  IN  IF item.key.type = OpTypeDelete THEN findNextValid(iters, m2)
                      ELSE m2

\* part_006:103-113: the first entry of every child that has one.
RECURSIVE SeekChildren(_, _, _)
SeekChildren(iters, i, h) ==
    IF i > Len(iters) THEN h
    ELSE SeekChildren(iters, i + 1,
                      IF Len(iters[i]) >= 1 THEN HeapPush(h, HeapItem(iters, i, 1)) ELSE h)

\* mergingIterator.SeekToFirst, part_006:99-116
SeekToFirst ==
    /\ scanPc = "new"
    /\ mi' = findNextValid(children,
                           [mi EXCEPT !.h = SeekChildren(children, 1, <<>>),
                                      !.isValid = FALSE])
    /\ scanPc' = "scan"
    /\ UNCHANGED <<diskVars, dbVars, taskVars, callVars, histVars, children, out, fnVars>>

\* One round of the caller's loop (main.go:44-49): Valid, Key and Value, Next.
ScanNext ==
    /\ scanPc = "scan"
    /\ mi.isValid
    /\ out' = Append(out, <<mi.lastKey.key, mi.currentValue>>)
    /\ mi' = findNextValid(children, mi)
    /\ UNCHANGED <<diskVars, dbVars, taskVars, callVars, histVars, children, scanPc, fnVars>>

\* The loop ends when Valid is false.
ScanEnd ==
    /\ scanPc = "scan"
    /\ ~mi.isValid
    /\ scanPc' = "done"
    /\ UNCHANGED <<diskVars, dbVars, taskVars, callVars, histVars, children, mi, out, fnVars>>

\* A scan of any child iterators, from SeekToFirst to the end.
InitScan ==
    /\ EmptyDir
    /\ children \in [1..MaxChildren -> ChildSet]
    /\ mi = NewIter
    /\ scanPc = "new"
    /\ out = <<>>
    /\ NoFn

NextScan == SeekToFirst \/ ScanNext \/ ScanEnd

SpecScan == InitScan /\ [][NextScan]_vars

(***************************************************************************)
(* A scan over children that fail.  The fault of a child strikes at the read *)
(* after its last entry.  "load": getBlock of the next block fails and        *)
(* sstableFileIterator.loadBlock sets it.err and drops the block iterator     *)
(* (sstable.go:458-463).  "decode": the block iterator fails in the last      *)
(* block and sets its own err (sstable.go:361-393); sstableFileIterator.Next  *)
(* then loads the next block, there is none, and it.err stays nil             *)
(* (sstable.go:431-434, 452-455).  Either way the child is no longer valid.   *)
(***************************************************************************)
MaxErrChildren == 2
ChildFaults == {"none", "load", "decode"}

\* The child has made the read after its last entry: it is positioned on no
\* entry, so the heap holds no item of it (part_006:42-46, 105-112).
ChildEnded(i) == scanPc # "new" /\ \A j \in 1..Len(mi.h) : mi.h[j].src # i

\* Error() of child i: sstableFileIterator.Error returns it.err
\* (sstable.go:442-444), which only loadBlock sets.
ChildError(i) == fnArg[i] = "load" /\ ChildEnded(i)

\* mergingIterator.Error, part_006:90-97: the children of the items that are
\* in the heap.
MergingError == \E j \in 1..Len(mi.h) : ChildError(mi.h[j].src)

\* The caller checks Error() after its loop (main.go:44-52).
CheckError ==
    /\ scanPc = "done"
    /\ fnPc = "scan"
    /\ fnRet' = MergingError
    /\ fnPc' = "checked"
    /\ UNCHANGED <<diskVars, dbVars, taskVars, callVars, histVars, scanVars, fnArg>>

InitScanErr ==
    /\ EmptyDir
    /\ children \in [1..MaxErrChildren -> ChildSet]
    /\ mi = NewIter
    /\ scanPc = "new"
    /\ out = <<>>
    /\ fnPc = "scan"
    /\ fnArg \in [1..MaxErrChildren -> ChildFaults]
    /\ fnRet = FALSE

NextScanErr == SeekToFirst \/ ScanNext \/ ScanEnd \/ CheckError

SpecScanErr == InitScanErr /\ [][NextScanErr]_vars

(***************************************************************************)
(* A memtable of its own: versions are inserted in any order, each with a   *)
(* sequence number of its own (db.sequenceNum gives every mutation one),    *)
(* and one key is looked up.                                                *)
(***************************************************************************)
MaxMemEntries == 3

InitMemtable ==
    /\ EmptyDir /\ NoScan
    /\ fnPc = "build"
    /\ fnArg = NewMemtable
    /\ fnRet = <<>>

\* Memtable.Put, memtable.go:21-26
MemtableInsert(e) ==
    /\ fnPc = "build"
    /\ Cardinality(fnArg.data) < MaxMemEntries
    /\ \A x \in fnArg.data : Compare(x, e) # 0
    /\ fnArg' = MemtablePut(fnArg, e)
    /\ UNCHANGED <<diskVars, dbVars, taskVars, callVars, histVars, scanVars, fnPc, fnRet>>

\* Memtable.Get, memtable.go:28-49
MemtableLookup(k) ==
    /\ fnPc = "build"
    /\ fnRet' = [key |-> k, res |-> MemtableGet(fnArg, k)]
    /\ fnPc' = "got"
    /\ UNCHANGED <<diskVars, dbVars, taskVars, callVars, histVars, scanVars, fnArg>>

NextMemtable ==
    \/ \E e \in ScanEntries : MemtableInsert(e)
    \/ \E k \in ScanKeys : MemtableLookup(k)

SpecMemtable == InitMemtable /\ [][NextMemtable]_vars

(***************************************************************************)
(* The table file with its data blocks, index and filter: WriteSSTable       *)
(* (sstable.go:49-155) and SSTableReader.Get (sstable.go:236-307) on a table  *)
(* of its own.                                                                *)
(***************************************************************************)
\* sstable.go:22 sets DataBlockSize = 4096; the model scales it down so that
\* a table of MaxTableLen entries has several blocks.
DataBlockSize == 2
MaxTableLen == 4

\* sstable.go:88-91: the bytes an entry adds to the block buffer, the two
\* sizes and the encoded key counted as one byte.
EntryBytes(e) == 1 + ValLen(e.val)

\* blockBuffer.Len()
RECURSIVE BufferLen(_)
BufferLen(buf) == IF Len(buf) = 0 THEN 0 ELSE EntryBytes(Head(buf)) + BufferLen(Tail(buf))

\* The InternalKey of an entry.
KeyOf(e) == Entry(e.key, e.seq, e.type, Nil)

\* An index that names the first key of the block.
FirstKeyInBlock(buf) == KeyOf(buf[1])

\* sstable.go:92: lastKeyInBlock is the key of the entry written last.
LastKeyInBlock(buf) == KeyOf(buf[Len(buf)])

\* sstable.go:63-107: the block is closed, before an entry is added, when it
\* holds more than DataBlockSize bytes; the last block when it holds any.
RECURSIVE WriteLoop(_, _, _, _, _)
WriteLoop(entries, i, buf, blocks, index) ==
    IF i > Len(entries)
    THEN IF BufferLen(buf) > 0
         THEN [blocks |-> Append(blocks, buf), index |-> Append(index, LastKeyInBlock(buf))]
         ELSE [blocks |-> blocks, index |-> index]
    ELSE IF BufferLen(buf) > DataBlockSize
         THEN WriteLoop(entries, i + 1, <<entries[i]>>, Append(blocks, buf),
                        Append(index, LastKeyInBlock(buf)))
         ELSE WriteLoop(entries, i + 1, Append(buf, entries[i]), blocks, index)

\* WriteSSTable: the data blocks, the index and the user keys added to the
\* Bloom filter (sstable.go:66).
\* A filter that is given the user key of the first entry only.
FilterAddFirstKey(entries) == {entries[i].key : i \in 1..Len(entries) \cap {1}}

\* sstable.go:59-66: the filter is sized for len(entries) keys and every
\* entry's user key is added to it in the write loop.
FilterAdd(entries) == {entries[i].key : i \in 1..Len(entries)}

WriteSSTable(entries) ==
    LET w == WriteLoop(entries, 1, <<>>, <<>>, <<>>)
    IN  [blocks |-> w.blocks, index |-> w.index, filter |-> FilterAdd(entries)]

\* filter.Test: true for every key that was added; fp says what the filter
\* answers for a key that was not.
FilterTest(filter, k, fp) == k \in filter \/ fp

\* A test that passes over the blocks that end with a version of the key.
IndexReachesUserKey(lastKey, searchKey) == lastKey.key > searchKey.key

\* sstable.go:249: the test of the index search.
IndexReaches(lastKey, searchKey) == Compare(lastKey, searchKey) >= 0

\* sort.Search(len(r.index), ...), sstable.go:248-250: a binary search on
\* the indices i..j of the Go slice.
RECURSIVE SortSearch(_, _, _, _)
SortSearch(index, searchKey, i, j) ==
    IF i >= j THEN i
    ELSE LET h == (i + j) \div 2
         IN  IF ~IndexReaches(index[h + 1], searchKey)
             THEN SortSearch(index, searchKey, h + 1, j)
             ELSE SortSearch(index, searchKey, i, h)

\* sstable.go:264-306: the entries of the block in order; every key is
\* decoded into a new InternalKey (sstable.go:281-282).
RECURSIVE BlockScan(_, _, _)
BlockScan(block, p, k) ==
    IF p > Len(block) THEN [val |-> Nil, found |-> FALSE, err |-> FALSE]
    ELSE LET ik == GobDecodeInto(Entry(0, 0, OpTypePut, Nil), block[p])
         IN  IF ik.key = k
             THEN IF ik.type = OpTypeDelete
                  THEN [val |-> Nil, found |-> TRUE, err |-> TRUE]
                  ELSE [val |-> block[p].val, found |-> TRUE, err |-> FALSE]
             ELSE BlockScan(block, p + 1, k)

\* SSTableReader.Get on the blocks: (value, found, err).
BlockGet(table, k, fp) ==
    IF ~FilterTest(table.filter, k, fp) THEN [val |-> Nil, found |-> FALSE, err |-> FALSE]
    ELSE LET blockIndex == SortSearch(table.index, Entry(k, MaxUint64, OpTypePut, Nil),
                                      0, Len(table.index))
         IN  IF blockIndex >= Len(table.index)
             THEN [val |-> Nil, found |-> FALSE, err |-> FALSE]
             ELSE BlockScan(table.blocks[blockIndex + 1], 1, k)

\* What WriteSSTable is given: entries in strictly ascending order.
TableInputs == UNION {SortedLists(n) : n \in 0..MaxTableLen}

InitTable ==
    /\ EmptyDir /\ NoScan
    /\ fnPc = "new"
    /\ fnArg \in TableInputs
    /\ fnRet = <<>>

TableWrite ==
    /\ fnPc = "new"
    /\ fnRet' = [table |-> WriteSSTable(fnArg), key |-> 0,
                 res |-> [val |-> Nil, found |-> FALSE, err |-> FALSE]]
    /\ fnPc' = "written"
    /\ UNCHANGED <<diskVars, dbVars, taskVars, callVars, histVars, scanVars, fnArg>>

TableGet(k, fp) ==
    /\ fnPc = "written"
    /\ fnRet' = [fnRet EXCEPT !.key = k, !.res = BlockGet(fnRet.table, k, fp)]
    /\ fnPc' = "read"
    /\ UNCHANGED <<diskVars, dbVars, taskVars, callVars, histVars, scanVars, fnArg>>

NextTable == TableWrite \/ \E k \in ScanKeys, fp \in BOOLEAN : TableGet(k, fp)

SpecTable == InitTable /\ [][NextTable]_vars

(***************************************************************************)
(* MergeSSTables applied to input files of its own.                         *)
(***************************************************************************)
MaxMergeInputs == 2

\* Input files: each in table order, no version (user key, sequence number)
\* twice.
MergeArgs ==
    {a \in [1..MaxMergeInputs -> ChildSet] :
        \A i, j \in 1..MaxMergeInputs : \A p \in 1..Len(a[i]), q \in 1..Len(a[j]) :
            (a[i][p].key = a[j][q].key /\ a[i][p].seq = a[j][q].seq) => (i = j /\ p = q)}

InitMerge ==
    /\ EmptyDir /\ NoScan
    /\ fnPc = "new"
    /\ fnArg \in MergeArgs
    /\ fnRet = <<>>

\* MergeSSTables(paths, outputPath): fnRet is the content of the output.
MergeCall ==
    /\ fnPc = "new"
    /\ fnRet' = MergeSSTables(fnArg)
    /\ fnPc' = "merged"
    /\ UNCHANGED <<diskVars, dbVars, taskVars, callVars, histVars, scanVars, fnArg>>

NextMerge == MergeCall

SpecMerge == InitMerge /\ [][NextMerge]_vars

(***************************************************************************)
(* Properties.                                                              *)
(***************************************************************************)
\* The latest acknowledged write of some key is a Put, and no write of the
\* key was in flight at a kill since.
SomeValueAcked == \E k \in Keys : Nil \notin allowed[k]

\* C1 Durability under sync: whatever kills and reopens came before, a Get
\* returns the value of the latest acknowledged Put of its key (found=false
\* after a Delete; a write the kill interrupted may or may not have taken
\* effect), and a directory that holds acknowledged writes can be reopened.
C1_Durability ==
    ~corrupted =>
        /\ \A t \in AllThreads :
              result[t].kind = "get" => result[t].val \in allowed[result[t].key]
        /\ SomeValueAcked => openResult \notin {"state", "replay"}

\* C2 Read-your-writes: with one caller thread, a Get returns what the last
\* write of its key by this handle wrote, whatever flush and compaction steps
\* ran in between.
C2_ReadYourWrites ==
    (result[1].kind = "get" /\ last[result[1].key] # "?")
        => result[1].val = last[result[1].key]

\* C5 Compaction equivalence: once a compaction has committed its swap and
\* deleted its inputs, Get returns for every key what it returned when the
\* compaction started, when no write was in flight then or issued since.
C5_CompactionEquivalence ==
    (dbState = "open" /\ preGet.valid /\ comp.pc = "done" /\ gc = <<>>)
        => \A k \in Keys : GetNow(k).val = preGet.res[k]

\* C6 Get tier authority: Get returns what the first tier that holds a
\* version of the key says (active memtable, immutable memtable, tables by
\* descending file number); a tombstone there means found=false.
C6_TierAuthority ==
    \A t \in AllThreads : result[t].kind = "get" => result[t].val = result[t].first

\* C7 Torn WAL tail: a NewDB that replays a WAL with a torn tail returns a
\* handle.
C7_TornTailOpens ==
    ((\E f \in DOMAIN walFiles : walFiles[f].tail # "clean") /\ openResult # "none")
        => openResult = "ok"

\* C8 Exclusive open: at no time do two open handles exist for the
\* directory; while a handle is open the lock is held, and a NewDB that
\* found the directory locked returned no handle.
C8_ExclusiveOpen ==
    /\ handles <= 1
    /\ handles = 1 => lockHeld
    /\ openResult = "locked" => (handles = 1 /\ dbState = "open")

\* A NewDB was refused while the handle of the directory is open.
C8_Witness == openResult = "locked" /\ handles = 1 /\ dbState = "open"

\* C9 Sequence numbers: every mutation written to a WAL of the directory
\* carries a sequence number greater than that of every mutation written
\* before it, over closes, kills and reopens.
C9_SequenceMonotone ==
    \A i, j \in 1..Len(seqLog) : i < j => seqLog[i] < seqLog[j]

\* C3 Latest-write-wins: a Get that took its snapshot while no write was in
\* flight, and during which no write of its key began, returns the value of
\* the write of its key with the highest sequence number.
C3_LatestWriteWins ==
    \A t \in AllThreads :
        (result[t].kind = "get" /\ result[t].newest # "?")
            => result[t].val = result[t].newest

\* The entries of the WAL files on disk and of the tables of the active set.
Persisted ==
    UNION {SeqToSet(walFiles[f].recs) : f \in DOMAIN walFiles}
    \cup UNION {SeqToSet(sstFiles[n].data) :
                  n \in {m \in DOMAIN sstFiles : \E i \in 1..Len(activeSSTables) :
                                                    activeSSTables[i] = m}}

\* C10 Every acknowledged mutation is in a WAL file on disk or in a table of
\* the active set, unless a compaction dropped it as shadowed.
C10_AckedPersisted == acked \subseteq (Persisted \cup dropped)

\* The versions of user key k in the children, and those of them with the
\* highest sequence number.
Versions(k) ==
    {e \in UNION {SeqToSet(children[i]) : i \in 1..Len(children)} : e.key = k}
Top(k) == {e \in Versions(k) : \A y \in Versions(k) : e.seq >= y.seq}

\* C4 Scan correctness: a scan from SeekToFirst to the end yields user keys
\* in strictly ascending order, every pair it yields is the value of a
\* newest version of its key that is a Put, and it yields every key whose
\* newest version is a Put.  (Two children can hold versions of one key
\* with the same sequence number; each of them is a newest version then.)
C4_ScanCorrect ==
    scanPc = "done" =>
        /\ \A i \in 1..(Len(out) - 1) : out[i][1] < out[i + 1][1]
        /\ \A i \in 1..Len(out) :
              \E e \in Top(out[i][1]) : e.type = OpTypePut /\ e.val = out[i][2]
        /\ \A k \in ScanKeys :
              (Top(k) # {} /\ \A e \in Top(k) : e.type = OpTypePut)
                  => \E i \in 1..Len(out) : out[i][1] = k

\* A finished scan over children that hold an older version of a key it
\* yielded and a key whose newest version is a tombstone.
C4_Witness ==
    /\ scanPc = "done"
    /\ \E i \in 1..Len(out) : \E e \in Versions(out[i][1]) : e \notin Top(out[i][1])
    /\ \E k \in ScanKeys : Versions(k) # {} /\ \A e \in Top(k) : e.type = OpTypeDelete

\* C11 Get concurrent with compaction: a Get of a key that nobody writes
\* returns the live value its snapshot held at the instant it was taken,
\* whatever a compaction commits and deletes before the Get opens the files.
C11_GetDuringCompaction ==
    \A t \in AllThreads :
        (result[t].kind = "get" /\ result[t].snap \notin {"?", Nil})
            => result[t].val = result[t].snap

\* The entries of the tables of the active set that are complete files.
ActiveData ==
    UNION {SeqToSet(sstFiles[n].data) :
             n \in {m \in DOMAIN sstFiles : sstFiles[m].done /\ \E i \in 1..Len(activeSSTables) :
                                                                    activeSSTables[i] = m}}

\* C12 Read-after-flush visibility: whenever a Get can take its snapshot,
\* every entry of a memtable that was rotated out is in the immutable
\* memtable of the snapshot or in a table of its active set (or a compaction
\* has read it since).
C12_ReadAfterFlush ==
    (dbState = "open" /\ mu = "free") =>
        \A g \in 1..Len(mems) :
            g = mem \/ g = immutableMem \/ mems[g].data \subseteq (ActiveData \cup dropped)

\* A flushed memtable whose entries a snapshot finds in the active set.
C12_Witness ==
    /\ dbState = "open" /\ mu = "free"
    /\ \E g \in 1..Len(mems) : /\ g # mem /\ g # immutableMem
                               /\ mems[g].data # {}
                               /\ mems[g].data \subseteq ActiveData

\* C13 Shutdown awaits background work: once Close has returned no flush,
\* compaction or deletion task is running.
C13_CloseAwaitsBackground == dbState = "closed" => BackgroundIdle

\* The records of all WAL files on disk.
WalRecords == UNION {SeqToSet(walFiles[f].recs) : f \in DOMAIN walFiles}

\* C14 Failed flush: after WriteSSTable has failed the rotated WAL is on
\* disk, the immutable memtable is installed, the active set lacks N, and
\* every entry of the immutable memtable is in a WAL that a restart replays.
C14_FailedFlush ==
    flush.pc = "failed" =>
        /\ flush.sstNum \in DOMAIN walFiles
        /\ immutableMem = flush.imm
        /\ \A i \in 1..Len(activeSSTables) : activeSSTables[i] # flush.sstNum
        /\ mems[flush.imm].data \subseteq WalRecords

\* C15 Failed compaction: a compaction that met an error (on an input, on
\* its output, on the state save) does not go on to swap the active set and
\* to delete its inputs.
C15_FailedCompaction == comp.fault => comp.pc \in {"rename", "failed"}

\* C16 Compaction swap: the commit of a compaction with snapshot S and
\* output M makes the active set {M} plus the tables of the current active
\* set that are not in S.
C16_CompactionSwap ==
    [][(comp.pc = "commit" /\ comp'.pc = "save")
          => SeqToSet(activeSSTables') =
                {comp.outputNum} \cup (SeqToSet(activeSSTables) \ SeqToSet(comp.tables))]_vars

\* A committed swap that kept a table flushed during the compaction.
C16_Witness ==
    /\ comp.pc = "save"
    /\ \E i \in 1..Len(activeSSTables) :
          activeSSTables[i] # comp.outputNum /\ activeSSTables[i] \notin SeqToSet(comp.tables)

\* C17 Compaction trigger: a compaction that has finished, with or without
\* an error, is no longer in flight for the trigger of the next one.
C17_CompactionNotInFlight == comp.pc \in {"done", "failed"} => ~compactionInProgress

\* C18 Crash-safe state file: after a process kill state.json holds a
\* complete state, never a partial or empty one.
C18_StateFileComplete == dbState = "none" => stateJson.kind # "torn"

C21_EmptyOutputCompaction ==
    [][(/\ CompactRename
        /\ ~comp.fault
        /\ MergeSSTables(MergeInputs(comp.tables, 1)) = <<>>
        /\ MergeInputs(comp.tables, 1) # <<>>)
       => comp'.pc = "commit"]_vars

\* C22 The records of every WAL file are in strictly increasing order of
\* their sequence numbers, with any number of writer threads.
C22_WalSequenceOrder ==
    \A n \in DOMAIN walFiles :
        \A i \in 1..(Len(walFiles[n].recs) - 1) :
            walFiles[n].recs[i].seq < walFiles[n].recs[i + 1].seq

\* The WAL files and table files hold a record of the entry.
Logged(e) ==
    \/ \E n \in DOMAIN walFiles : \E i \in 1..Len(walFiles[n].recs) :
          walFiles[n].recs[i].key = e.key /\ walFiles[n].recs[i].seq = e.seq
    \/ \E n \in DOMAIN sstFiles : \E i \in 1..Len(sstFiles[n].data) :
          sstFiles[n].data[i].key = e.key /\ sstFiles[n].data[i].seq = e.seq

\* C23 Every entry of the active and of the immutable memtable has a record
\* in a WAL file or in a table file; a Put or Delete whose WAL write returns
\* an error returns the error, inserts into no memtable, starts no flush and
\* leaves the result of Get for every key as it was.
C23_WalBeforeMemtable ==
    /\ [](\A g \in {mem, immutableMem} \ {0} : \A e \in mems[g].data : Logged(e))
    /\ [][\A t \in AllThreads :
            (pc[t] = "wal" /\ pc'[t] = "idle" /\ dbState' = "open")
            => /\ result'[t].kind = "err"
               /\ mems' = mems /\ flush' = flush /\ immutableMem' = immutableMem
               /\ \A k \in Keys : GetNow(k)' = GetNow(k)]_vars

\* The goroutine of a flush exists.
FlushRunning == flush.pc \in {"create", "write", "commit", "save", "end"}

\* The goroutine of a compaction, or of the removal of its inputs, exists.
CompactRunning == comp.pc \in {"start", "merge", "rename", "commit", "save"}

\* C24 At most one flush goroutine, one compaction goroutine and one
\* immutable memtable exist: a flush goroutine is started only when none is
\* running and no immutable memtable is installed, a running flush goroutine
\* that has not yet committed owns the one immutable memtable, and a
\* compaction goroutine is started only when none is running.
C24_SingleBackgroundTask ==
    /\ []((FlushRunning /\ flush.pc \in {"create", "write", "commit"})
            => immutableMem = flush.imm)
    /\ [][/\ (flush'.pc = "create" /\ flush' # flush)
                => (~FlushRunning /\ immutableMem = 0 /\ immutableMem' = flush'.imm)
          /\ (comp'.pc = "start" /\ comp.pc # "start")
                => (~CompactRunning /\ ~compactionInProgress)]_vars

\* A writer whose memtable is over the threshold is about to call
\* flushMemtable while the flush goroutine that another writer started runs.
C24_Witness ==
    /\ FlushRunning
    /\ \E t \in AllThreads : pc[t] = "check" /\ NeedsFlush(t) /\ cur[t].gen = flush.imm

\* C25 A flush attempt made while an immutable memtable is installed changes
\* nothing: no file number is allocated, the WAL files, the active and the
\* immutable memtable stay, no goroutine is started and the writer gets no
\* error.
C25_SecondFlushNoOp ==
    [][\A t \in AllThreads :
          (/\ pc[t] = "check" /\ pc'[t] = "idle" /\ dbState' = dbState
           /\ NeedsFlush(t) /\ immutableMem # 0)
          => /\ UNCHANGED <<nextFileNumber, walFiles, mem, immutableMem, flush, comp, gc>>
             /\ Len(mems') = Len(mems)
             /\ result'[t].kind # "err"]_vars

\* A write has returned from its flush attempt with the active memtable over
\* the threshold and the immutable memtable still installed.
C25_Witness ==
    /\ dbState = "open" /\ immutableMem # 0
    /\ mems[mem].size > MemtableSizeThreshold
    /\ \A t \in AllThreads : pc[t] = "idle"
    /\ nOps >= 2

\* The versions of user key k in the input files of the merge.
MergeVersions(k) ==
    {e \in UNION {SeqToSet(fnArg[i]) : i \in 1..Len(fnArg)} : e.key = k}

\* C26 The output of MergeSSTables holds, for every user key of the inputs
\* (the empty key included), exactly the version with the highest sequence
\* number when that version is a Put and no entry when it is a Delete: no
\* tombstone and no second entry of a user key.
C26_MergeNewestOnly ==
    fnPc = "merged" =>
        \A k \in ScanKeys :
            LET vs   == MergeVersions(k)
                outk == {j \in 1..Len(fnRet) : fnRet[j].key = k}
            IN  IF vs = {} THEN outk = {}
                ELSE LET top == CHOOSE e \in vs : \A y \in vs : e.seq >= y.seq
                     IN  IF top.type = OpTypePut
                         THEN Cardinality(outk) = 1 /\ \A j \in outk : fnRet[j] = top
                         ELSE outk = {}

\* C27 When a child iterator has reported an error during the scan, Error()
\* of the merging iterator, called after the loop has ended, is not nil.
C27_ErrorPropagated ==
    (fnPc = "checked" /\ \E i \in 1..Len(fnArg) : fnArg[i] # "none" /\ ChildEnded(i))
        => fnRet = TRUE

\* C28 Memtable.Get(k) returns (value, true) of the version of k with the
\* highest sequence number when it is a Put, (nil, true) when it is a Delete
\* and (nil, false) when the memtable holds no version of k, whatever versions
\* of other keys it holds.
C28_MemtableGetNewest ==
    fnPc = "got" =>
        LET vs == {e \in fnArg.data : e.key = fnRet.key}
        IN  IF vs = {} THEN fnRet.res = [val |-> Nil, found |-> FALSE]
            ELSE LET top == CHOOSE e \in vs : \A y \in vs : e.seq >= y.seq
                 IN  IF top.type = OpTypePut
                     THEN fnRet.res = [val |-> top.val, found |-> TRUE]
                     ELSE fnRet.res = [val |-> Nil, found |-> TRUE]

\* A lookup of a key with two versions, the newer a tombstone, in a memtable
\* that holds another key as well.
C28_Witness ==
    /\ fnPc = "got"
    /\ fnRet.res = [val |-> Nil, found |-> TRUE]
    /\ Cardinality({e \in fnArg.data : e.key = fnRet.key}) = 2
    /\ \E e \in fnArg.data : e.key # fnRet.key

\* The blocks of the table that hold a version of user key k.
BlocksOf(k) ==
    {b \in 1..Len(fnRet.table.blocks) :
        \E p \in 1..Len(fnRet.table.blocks[b]) : fnRet.table.blocks[b][p].key = k}

\* C29 SSTableReader.Get(k) returns the version of k with the highest
\* sequence number of the table, its value for a Put, found with a nil value
\* (the tombstone) for a Delete, and not found when the table holds no
\* version of k, for every layout of the entries over the data blocks; the
\* result is the one of a scan of all entries of the table in order.
C29_TableGetNewest ==
    fnPc = "read" =>
        LET vs == {e \in SeqToSet(fnArg) : e.key = fnRet.key}
        IN  /\ IF vs = {} THEN ~fnRet.res.found /\ fnRet.res.val = Nil
               ELSE LET top == CHOOSE e \in vs : \A y \in vs : e.seq >= y.seq
                    IN  IF top.type = OpTypePut
                        THEN fnRet.res.found /\ fnRet.res.val = top.val
                        ELSE fnRet.res.found /\ fnRet.res.val = Nil
            /\ fnRet.res = SSTableReaderGet(fnArg, fnRet.key)

\* A key whose versions lie in two blocks was looked up and found.
C29_Witness ==
    /\ fnPc = "read"
    /\ Cardinality(BlocksOf(fnRet.key)) >= 2
    /\ fnRet.res.found /\ fnRet.res.val # Nil

\* The concatenation of the blocks from block b on.
RECURSIVE Concat(_, _)
Concat(blocks, b) == IF b > Len(blocks) THEN <<>> ELSE blocks[b] \o Concat(blocks, b + 1)

\* C30 The LastKey values of the index of a written table are strictly
\* increasing, every data block is non-empty, every entry of block i is at
\* most LastKey[i] and greater than LastKey[i-1], and every input entry is in
\* exactly one block.
C30_IndexMonotone ==
    fnPc \in {"written", "read"} =>
        LET blocks == fnRet.table.blocks
            index  == fnRet.table.index
        IN  /\ Len(index) = Len(blocks)
            /\ \A i \in 1..(Len(index) - 1) : Compare(index[i], index[i + 1]) < 0
            /\ \A i \in 1..Len(blocks) :
                  /\ Len(blocks[i]) > 0
                  /\ \A p \in 1..Len(blocks[i]) :
                        /\ Compare(blocks[i][p], index[i]) <= 0
                        /\ i > 1 => Compare(blocks[i][p], index[i - 1]) > 0
            /\ Concat(blocks, 1) = fnArg

\* A table of several blocks, one of them with several entries.
C30_Witness ==
    /\ fnPc = "written"
    /\ Len(fnRet.table.blocks) >= 2
    /\ \E i \in 1..Len(fnRet.table.blocks) : Len(fnRet.table.blocks[i]) >= 2

-----------------------------------------------------------------------------
\* The filter of a table (sstable.go:59-66, 236-239).

\* The user keys that have an entry in the table that was written.
HeldKeys == {fnArg[i].key : i \in 1..Len(fnArg)}

\* C31: every user key that has an entry in a written table tests positive
\* in the table's filter, whatever the filter answers for other keys, so a
\* Get of a key the table holds is never answered "not present" by the
\* filter step: it finds the key.
C31_BloomSound ==
    fnPc \in {"written", "read"} =>
        /\ \A k \in HeldKeys : FilterTest(fnRet.table.filter, k, FALSE)
        /\ (fnPc = "read" /\ fnRet.key \in HeldKeys) => fnRet.res.found

\* A Get of a held key that is not the first key of a table of several
\* blocks has been answered.
C31_Witness ==
    /\ fnPc = "read"
    /\ Len(fnRet.table.blocks) > 1
    /\ fnRet.key \in HeldKeys
    /\ fnRet.key # fnArg[1].key
    /\ fnRet.res.found

-----------------------------------------------------------------------------
\* Table files on disk (db.go:189-197, memtable.go:260-271).

\* C32: a file with the name NNNNN.sst is never partially written: every
\* table is written under another name and renamed when it is complete, so
\* at every moment, a crash included, each NNNNN.sst holds a whole table.
C32_TableFilesComplete == \A n \in DOMAIN sstFiles : sstFiles[n].done

-----------------------------------------------------------------------------
\* The WAL as a file of encoded records (wal.go:58-171), checked on its own:
\* records are appended to a new file, the file is replayed twice and each
\* result is put into a new memtable as NewDB does (db.go:127-133).

MaxWalRecs == 3

\* The bytes of a user key and of a value.
KeyBytes(k) == IF k = 0 THEN <<>> ELSE <<k>>
ValBytes(v) == IF v = Nil THEN <<>> ELSE [i \in 1..ValLen(v) |-> IF v = "s" THEN 115 ELSE 76]
BytesToKey(b) == IF b = <<>> THEN 0 ELSE b[1]
BytesToVal(b) == IF b = <<>> THEN Nil ELSE IF b[1] = 115 /\ Len(b) = 1 THEN "s" ELSE "L"

\* crc32.ChecksumIEEE of a payload: equal payloads have equal sums.
Checksum(payload) == payload

\* wal.go:62-75: the header and the key and value bytes of one record.
WalPayload(e) ==
    [seq |-> e.seq, keySize |-> KeyLen(e.key), valueSize |-> ValLen(e.val), op |-> e.type,
     kv |-> KeyBytes(e.key) \o ValBytes(e.val)]

\* WAL.Write, wal.go:58-101: the record that is appended to the file.
WalEncode(e) == [sum |-> Checksum(WalPayload(e)), payload |-> WalPayload(e)]

\* A decoder that cuts the key where the value ends.
WalDecodeByValueSize(rec) ==
    Entry(BytesToKey(SubSeq(rec.payload.kv, 1, rec.payload.valueSize)), rec.payload.seq,
          rec.payload.op,
          BytesToVal(SubSeq(rec.payload.kv, rec.payload.valueSize + 1,
                            Len(rec.payload.kv))))

\* wal.go:144-167: the internal key and the value that Replay takes from one
\* record: the key is kvBuf[:keySize], the value the rest.
WalDecode(rec) ==
    Entry(BytesToKey(SubSeq(rec.payload.kv, 1, rec.payload.keySize)), rec.payload.seq,
          rec.payload.op,
          BytesToVal(SubSeq(rec.payload.kv, rec.payload.keySize + 1, Len(rec.payload.kv))))

\* wal.go:126-158: the records of a file whose checksums all match, and
\* whether one did not.
ReadRecords(bytes) ==
    [recs |-> [i \in 1..Len(bytes) |-> WalDecode(bytes[i])],
     tail |-> IF \A i \in 1..Len(bytes) : bytes[i].sum = Checksum(bytes[i].payload)
              THEN "clean" ELSE "bad"]

\* Replay of a file of encoded records.
ReplayFile(bytes) == Replay(ReadRecords(bytes))

\* The records a caller can append: sequence numbers are given out once
\* (db.go:227, 316), so no two records of a file have the same one.
WalEntries ==
    {Entry(k, q, OpTypePut, v) : k \in ScanKeys, q \in 1..MaxWalRecs, v \in Values}
    \cup {Entry(k, q, OpTypeDelete, Nil) : k \in ScanKeys, q \in 1..MaxWalRecs}

InitWal ==
    /\ EmptyDir /\ NoScan
    /\ fnPc = "append"
    /\ fnArg = <<>>
    /\ fnRet = [written |-> <<>>]

\* WAL.Write of one more record.
WalAppend(e) ==
    /\ fnPc = "append"
    /\ Len(fnArg) < MaxWalRecs
    /\ \A i \in 1..Len(fnRet.written) : fnRet.written[i].seq # e.seq
    /\ fnArg' = Append(fnArg, WalEncode(e))
    /\ fnRet' = [written |-> Append(fnRet.written, e)]
    /\ UNCHANGED <<diskVars, dbVars, taskVars, callVars, histVars, scanVars, fnPc>>

\* Replay is called twice on the file; each result waits to be put into a
\* new memtable.
WalReplay ==
    /\ fnPc = "append"
    /\ fnRet' = [written |-> fnRet.written,
                 first |-> ReplayFile(fnArg), second |-> ReplayFile(fnArg),
                 todo |-> <<ReplayFile(fnArg).data, ReplayFile(fnArg).data>>,
                 mems |-> <<NewMemtable, NewMemtable>>]
    /\ fnPc' = "fill"
    /\ UNCHANGED <<diskVars, dbVars, taskVars, callVars, histVars, scanVars, fnArg>>

\* db.go:127-133: one step of the range over the map that Replay returned;
\* the order of a range over a Go map is not fixed.
WalFill(i, e) ==
    /\ fnPc = "fill"
    /\ e \in fnRet.todo[i]
    /\ \A j \in 1..(i - 1) : fnRet.todo[j] = {}
    /\ fnRet' = [fnRet EXCEPT !.todo[i] = @ \ {e}, !.mems[i] = MemtablePut(@, e)]
    /\ UNCHANGED <<diskVars, dbVars, taskVars, callVars, histVars, scanVars, fnPc, fnArg>>

NextWal ==
    \/ \E e \in WalEntries : WalAppend(e)
    \/ WalReplay
    \/ \E i \in 1..2 : \E e \in WalEntries : WalFill(i, e)

SpecWal == InitWal /\ [][NextWal]_vars

\* The largest sequence number of a list of records, 0 for none.
MaxSeqOf(recs) ==
    IF Len(recs) = 0 THEN 0
    ELSE CHOOSE q \in {recs[i].seq : i \in 1..Len(recs)} :
            \A i \in 1..Len(recs) : recs[i].seq <= q

\* C33: replaying a file to which r1..rn were appended returns without an
\* error exactly the set of (user key, sequence number, op, value) of r1..rn
\* and the largest of their sequence numbers; a second replay of the file
\* returns the same, the two memtables filled from the two replays have the
\* same contents, and the file is the one that was written.
C33_WalRoundTrip ==
    fnPc = "fill" =>
        /\ ~fnRet.first.err
        /\ fnRet.first.data = SeqToSet(fnRet.written)
        /\ fnRet.first.maxSeq = MaxSeqOf(fnRet.written)
        /\ fnRet.second = fnRet.first
        /\ fnArg = [i \in 1..Len(fnRet.written) |-> WalEncode(fnRet.written[i])]
        /\ (fnRet.todo[1] = {} /\ fnRet.todo[2] = {}) =>
               /\ fnRet.mems[1] = fnRet.mems[2]
               /\ fnRet.mems[1].data = SeqToSet(fnRet.written)

\* Both memtables are filled from a file of MaxWalRecs records that holds a
\* tombstone, a record with the empty key and two versions of one key.
C33_Witness ==
    /\ fnPc = "fill"
    /\ Len(fnRet.written) = MaxWalRecs
    /\ fnRet.todo[1] = {} /\ fnRet.todo[2] = {}
    /\ \E i, j, l \in 1..MaxWalRecs :
          /\ fnRet.written[i].type = OpTypeDelete
          /\ fnRet.written[j].key = 0 /\ fnRet.written[j].val = "L"
          /\ i # l /\ fnRet.written[i].key = fnRet.written[l].key
    /\ Cardinality(fnRet.mems[2].data) = MaxWalRecs

-----------------------------------------------------------------------------
\* The immutable memtable (db.go:184-194, 240-249).

\* C34: while a memtable is the immutable one its contents do not change: no
\* Put or Delete inserts into it, one that read the memtable handle before
\* the rotation included.
C34_ImmutableFrozen ==
    [][(immutableMem # 0 /\ immutableMem' = immutableMem)
          => mems'[immutableMem] = mems[immutableMem]]_vars

-----------------------------------------------------------------------------
\* File numbers and recency (db.go:160-205, 287-309, memtable.go:247-289).

\* The active tables whose files are complete.
ActiveFiles ==
    {n \in SeqToSet(activeSSTables) : n \in DOMAIN sstFiles /\ sstFiles[n].done}

\* C35: the order of the file numbers is the order of recency: for two
\* tables a < b of the active set and a user key that has versions in both,
\* every version in b has a higher sequence number than every version in a.
C35_FileOrderIsRecency ==
    \A a, b \in ActiveFiles :
        a < b => \A x \in SeqToSet(sstFiles[a].data), y \in SeqToSet(sstFiles[b].data) :
                    x.key = y.key => y.seq > x.seq

-----------------------------------------------------------------------------
\* Rotated WAL files (db.go:166-176, 114-134, 143-152).

\* The records that are in a complete table of the active set that
\* state.json lists.
Registered ==
    UNION {SeqToSet(sstFiles[n].data) :
             n \in {m \in DOMAIN sstFiles :
                      /\ sstFiles[m].done
                      /\ stateJson.kind = "ok"
                      /\ m \in SeqToSet(stateJson.active)}}

\* C36: a rotation never renames db.wal onto a wal-N.log that exists and
\* holds a record that is in no registered table.
C36_RotationKeepsWal ==
    [][(immutableMem = 0 /\ immutableMem' # 0 /\ nextFileNumber \in DOMAIN walFiles)
          => SeqToSet(walFiles[nextFileNumber].recs) \subseteq Registered]_vars

-----------------------------------------------------------------------------
\* Writers and the rotation of the WAL (db.go:169-184, 240-247, wal.go:47-52).

\* C37: without an I/O fault a Put or Delete on an open handle never returns
\* an error, also when the writer read the WAL handle just before the
\* rotation of another thread closed it.
C37_WritersNeverFail == \A t \in AllThreads : result[t].kind # "err"

-----------------------------------------------------------------------------
\* File numbers (db.go:33-46, 166-168, 203-206, memtable.go:249-252).

\* A list of file numbers is ascending without duplicates and below next.
NumbersBelow(active, next) ==
    /\ \A i \in 1..Len(active) : active[i] < next
    /\ \A i \in 1..(Len(active) - 1) : active[i] < active[i + 1]

\* A step in which flushMemtable or compact takes a file number.
Allocates == nextFileNumber' = nextFileNumber + 1 /\ dbState' = dbState

\* C38: the next file number, in memory and in a complete state.json, is
\* greater than every number of the active set, which is ascending without
\* duplicates; and a flush or compaction never takes a number that the last
\* flush or the running compaction of the same process took.
C38_FileNumbersUnique ==
    /\ [](NumbersBelow(activeSSTables, nextFileNumber))
    /\ [](stateJson.kind = "ok" => NumbersBelow(stateJson.active, stateJson.next))
    /\ [][Allocates => (nextFileNumber # flush.sstNum /\ nextFileNumber # comp.outputNum)]_vars

-----------------------------------------------------------------------------
\* The directory lock (db.go:74-141, 340-347).

\* C39: the lock is held exactly while a handle is open or NewDB is about to
\* return one: a NewDB that fails behind TryLock releases it, Close releases
\* it, and a NewDB is refused as locked only while a handle is open.
C39_LockWhileOpen ==
    /\ lockHeld <=> dbState \in {"opening", "open"}
    /\ openResult \in {"state", "replay"} => ~lockHeld
    /\ openResult = "locked" => dbState = "open"

\* After Close a NewDB of the same process got the lock, failed on
\* state.json and returned without the lock.
C39_Witness == openResult = "state" /\ dbState = "closed" /\ ~lockHeld

-----------------------------------------------------------------------------
\* A rotated WAL that outlives the registration of its table (db.go:114-134,
\* 206-216, 265-273).

\* The rotated WALs whose table is in the active set of a complete state.json.
LeftoverWals ==
    {n \in DOMAIN walFiles \ {0} : stateJson.kind = "ok" /\ n \in SeqToSet(stateJson.active)}

\* C40: the records of a rotated WAL whose table is registered are not served
\* as newer data: no record of it stands in the memtable of an open engine in
\* front of a newer version of its key that a table of the active set holds.
C40_LeftoverWalNotNewer ==
    dbState = "open" =>
        \A n \in LeftoverWals : \A r \in SeqToSet(walFiles[n].recs) :
            r \in mems[mem].data =>
                \A m \in ActiveFiles : \A y \in SeqToSet(sstFiles[m].data) :
                    (y.key = r.key /\ y.seq > r.seq)
                        => \E x \in mems[mem].data : x.key = r.key /\ x.seq >= y.seq

=============================================================================
